---- MODULE Spec2Model ----
(***************************************************************************)
(* Model of parallel_wavegan/bin/preprocessing.py: the per-utterance job   *)
(* _process_single_file (parse, check, extract, align, gain, save) and the *)
(* batch run of main() that dispatches one job per reader entry through a  *)
(* worker pool of n_jobs workers.                                          *)
(*                                                                         *)
(* Amplitudes are exact rationals: a waveform is [s, den], sample k being  *)
(* s[k] / den.  Spectral magnitudes are tracked by their decimal exponent  *)
(* (log10), with zero energy kept exact.  Strings are sequences of tokens; *)
(* ".wav" and "/" are tokens of their own.                                 *)
(***************************************************************************)
EXTENDS Integers, Sequences, FiniteSets, TLC

VARIABLES config, wavscp, n_jobs, reader, sourceReadable, outdir, mainpc, jobs, files

vars == <<config, wavscp, n_jobs, reader, sourceReadable, outdir, mainpc, jobs, files>>

---------------------------------------------------------------------------
(* Bounds of the model *)

MaxLen == 3
MaxFft == 2
MaxHop == 3
MaxUtts == 2
MaxJobs == 2

(* Program constants *)

\* 1 << (16 - 1): the PCM 16 bit full scale
FullScale == 32768
\* log10 of the default eps = 1e-10 of logmelfilterbank
DefaultEpsExp == -10

---------------------------------------------------------------------------
(* Arithmetic helpers *)

Abs(v) == IF v < 0 THEN -v ELSE v

Max(a, b) == IF a >= b THEN a ELSE b

Min(a, b) == IF a <= b THEN a ELSE b

\* np.abs(x).max() on the numerators of a non-empty sample sequence
AbsMax(s) == CHOOSE m \in {Abs(s[k]) : k \in 1..Len(s)} :
                \A k \in 1..Len(s) : Abs(s[k]) <= m

\* floor(log10(n / d)) for integers n, d > 0
RECURSIVE Log10Floor(_, _)
Log10Floor(n, d) ==
    IF n >= d
    THEN IF n >= 10 * d THEN 1 + Log10Floor(n, 10 * d) ELSE 0
    ELSE Log10Floor(10 * n, d) - 1

---------------------------------------------------------------------------
(* librosa.stft(..., center=True, pad_mode="reflect") framing *)

\* index (0-based) read by np.pad(mode="reflect") at offset k of an axis of
\* length L; an axis of length 1 is extended by its only sample
ReflectIndex(k, L) ==
    IF L = 1 THEN 0
    ELSE LET p == 2 * (L - 1)
             m == k % p
         IN IF m < L THEN m ELSE p - m

\* np.pad(y, n_fft // 2, mode="reflect")
ReflectPad(s, w) ==
    [j \in 1..(Len(s) + 2 * w) |-> s[ReflectIndex(j - 1 - w, Len(s)) + 1]]

\* number of frames of the centered STFT: 1 + (len(padded) - n_fft) // hop
NumFrames(L, fft_size, hop_size) ==
    1 + ((L + 2 * (fft_size \div 2) - fft_size) \div hop_size)

\* frame t (0-based) of the padded signal
Frame(y, t, fft_size, hop_size) ==
    [j \in 1..fft_size |-> y[t * hop_size + j]]

\* np.log10(np.maximum(eps, mel_energy)) of one frame, in decimal exponents:
\* an all-zero frame has zero energy, any other frame the decade of its peak
LogMelFrame(fr, den, epsExp) ==
    IF \A j \in 1..Len(fr) : fr[j] = 0
    THEN epsExp
    ELSE Max(epsExp, Log10Floor(AbsMax(fr), den))

\* logmelfilterbank(x, ..., eps): one log-mel value per STFT frame
logmelfilterbank(x, fft_size, hop_size, epsExp) ==
    LET y == ReflectPad(x.s, fft_size \div 2)
        n == NumFrames(Len(x.s), fft_size, hop_size)
    IN [t \in 1..n |-> LogMelFrame(Frame(y, t - 1, fft_size, hop_size), x.den, epsExp)]

---------------------------------------------------------------------------
(* Alignment and gain of _process_single_file *)

\* np.pad(x, (0, fft_size), mode="edge"): fft_size copies of the last sample
EdgePad(s, n) == [j \in 1..(Len(s) + n) |-> IF j <= Len(s) THEN s[j] ELSE s[Len(s)]]

\* x[:n]: the slice keeps at most n samples
Truncate(s, n) == SubSeq(s, 1, Min(n, Len(s)))

\* x = np.pad(x, (0, fft_size), mode="edge"); x = x[:len(feats) * hop_size]
AlignWave(s, nframes, fft_size, hop_size) ==
    Truncate(EdgePad(s, fft_size), nframes * hop_size)

\* config["global_gain_scale"] > 0.0
GainEnabled(g) == g.n > 0

\* x *= config["global_gain_scale"], the gain being the rational g.n / g.d
ApplyGain(x, g) == [s |-> [k \in 1..Len(x.s) |-> x.s[k] * g.n], den |-> x.den * g.d]

\* np.abs(x).max() > 1.0
PeakAbove1(x) == AbsMax(x.s) > x.den

---------------------------------------------------------------------------
(* Utterance ids and output paths *)

\* os.path.basename(name)
RECURSIVE Basename(_)
Basename(name) ==
    IF \E k \in 1..Len(name) : name[k] = "/"
    THEN Basename(Tail(name))
    ELSE name

\* str.replace(".wav", ""): every occurrence is removed
RemoveWav(str) == SelectSeq(str, LAMBDA t : t # ".wav")

\* utt_id of an entry: the archive key, or the file's basename without ".wav"
UttId(name, scp) == IF scp THEN name ELSE RemoveWav(Basename(name))

\* os.path.join(args.outdir, f"{utt_id}-wave.npy") and ...-feats.npy
WavePath(id) == [id |-> id, kind |-> "wave"]

FeatsPath(id) == [id |-> id, kind |-> "feats"]

---------------------------------------------------------------------------
(* Inputs *)

\* config["global_gain_scale"] as a rational n / d: 0, 0.5, 1 and 2
Gains == {[n |-> 0, d |-> 1], [n |-> 1, d |-> 2], [n |-> 1, d |-> 1], [n |-> 2, d |-> 1]}

\* eps of the loaded config, as a decimal exponent: 1e-10 and 1e-5
EpsExps == {-10, -5}

\* sample rates of the inputs; the first is the configured one
Rates == {16000, 8000}

\* samples that sf.read yields, in units of 1 / FullScale: -1.0, 0, 0.6, 1.2
FloatSamples == {-32768, 0, 19661, 39322}

\* samples of a 16 bit PCM stream as kaldiio yields them
PcmSamples == {-32768, 0, 19661}

\* what the reader yields for one utterance, before _process_single_file
\* parses it: the samples of a directory entry are floats (n / FullScale),
\* those of an archive entry raw 16 bit integers
RawWave(s, scp) == [s |-> s, den |-> IF scp THEN 1 ELSE FullScale]

SeqsUpTo(S, n) == UNION {[1..k -> S] : k \in 0..n}

\* names the reader can yield, in the order it yields them: files of the
\* root directory matching "*.wav", or keys of the archive
NameList(scp) ==
    IF scp
    THEN << <<"x">>, <<"x", ".wav">>, <<"y">>, <<"y", ".wav">> >>
    ELSE << <<"root", "/", "x", ".wav">>, <<"root", "/", "x", ".wav", ".wav">>,
            <<"root", "/", "y", ".wav">>, <<"root", "/", "y", ".wav", ".wav">> >>

\* n distinct names, in reader order
NameChoices(n) == {f \in [1..n -> 1..4] : \A a, b \in 1..n : a < b => f[a] < f[b]}

\* state of the output directory before the run: whether it exists, whether
\* files can be created in it, whether os.makedirs can create it
OutdirStates ==
    {[exists |-> TRUE, writable |-> TRUE, creatable |-> TRUE],
     [exists |-> TRUE, writable |-> FALSE, creatable |-> TRUE],
     [exists |-> FALSE, writable |-> FALSE, creatable |-> TRUE],
     [exists |-> FALSE, writable |-> FALSE, creatable |-> FALSE]}

QueuedJob ==
    [pc |-> "queued", utt_id |-> <<>>, x |-> [s |-> <<>>, den |-> 1], fs |-> 0,
     ndim |-> 0, feats |-> <<>>, err |-> "none", wrote |-> {}]

\* the variables main() sets up from its arguments, for a given reader content
Setup(scp, names, data) ==
    /\ wavscp = scp
    /\ reader = [i \in 1..Len(data) |->
                    [name |-> NameList(scp)[names[i]],
                     fs   |-> data[i].fs,
                     ndim |-> data[i].ndim,
                     wave |-> RawWave(data[i].s, scp)]]
    /\ jobs = [i \in 1..Len(data) |-> QueuedJob]
    /\ mainpc = "get_reader"
    /\ files = {}

\* a batch of up to MaxUtts one-sample utterances (peak 0.3 or 0.6, mono or
\* stereo), the gain disabled or 2.0, in any environment
Init ==
    /\ config \in [sampling_rate : {16000}, fft_size : {2}, hop_size : {1},
                   global_gain_scale : {g \in Gains : g.d = 1 /\ g.n # 1},
                   eps : {DefaultEpsExp}]
    /\ n_jobs \in 1..MaxJobs
    /\ sourceReadable \in BOOLEAN
    /\ outdir \in OutdirStates
    /\ \E scp \in BOOLEAN, n \in 0..MaxUtts :
         \E names \in NameChoices(n),
            data \in [1..n -> [fs : {16000}, ndim : {1, 2},
                               s : {<<9830>>, <<19661>>}]] :
              Setup(scp, names, data)

\* a single utterance with any waveform of up to MaxLen samples, any framing
\* and any output directory
InitJob ==
    /\ config \in [sampling_rate : {16000}, fft_size : 1..MaxFft, hop_size : 1..MaxHop,
                   global_gain_scale : Gains, eps : EpsExps]
    /\ n_jobs = 1
    /\ sourceReadable = TRUE
    /\ outdir \in OutdirStates
    /\ \E scp \in BOOLEAN :
         \E data \in [1..1 -> [fs : Rates, ndim : {1, 2},
                               s : SeqsUpTo(IF scp THEN PcmSamples ELSE FloatSamples,
                                            MaxLen)]] :
              Setup(scp, <<1>>, data)

---------------------------------------------------------------------------
(* main() *)

Terminal(j) == j.pc \in {"done", "skipped", "failed"}

Running(j) == j.pc \notin {"queued", "done", "skipped", "failed"}

\* lines 90-97: the reader is opened; an unreadable source raises here
MainGetReader ==
    /\ mainpc = "get_reader"
    /\ mainpc' = IF sourceReadable THEN "check_outdir" ELSE "exit_err"
    /\ UNCHANGED <<config, wavscp, n_jobs, reader, sourceReadable, outdir, jobs, files>>

\* lines 99-101: the directory is created when it does not exist
MainCheckOutdir ==
    /\ mainpc = "check_outdir"
    /\ IF outdir.exists
       THEN mainpc' = "dispatch" /\ outdir' = outdir
       ELSE IF outdir.creatable
            THEN /\ mainpc' = "dispatch"
                 /\ outdir' = [exists |-> TRUE, writable |-> TRUE, creatable |-> TRUE]
            ELSE mainpc' = "exit_err" /\ outdir' = outdir
    /\ UNCHANGED <<config, wavscp, n_jobs, reader, sourceReadable, jobs, files>>

\* lines 152-154: Parallel hands the jobs to its workers in reader order, at
\* most n_jobs at a time; with one worker the jobs run in the caller and an
\* exception ends the run at once
JobStart(i) ==
    /\ mainpc = "dispatch"
    /\ jobs[i].pc = "queued"
    /\ \A j \in 1..(i - 1) : jobs[j].pc # "queued"
    /\ Cardinality({j \in 1..Len(jobs) : Running(jobs[j])}) < n_jobs
    /\ n_jobs = 1 => \A j \in 1..Len(jobs) : jobs[j].pc # "failed"
    /\ jobs' = [jobs EXCEPT ![i].pc = "parse"]
    /\ UNCHANGED <<config, wavscp, n_jobs, reader, sourceReadable, outdir, mainpc, files>>

\* Parallel returns once every job has returned
MainFinish ==
    /\ mainpc = "dispatch"
    /\ \A j \in 1..Len(jobs) : jobs[j].pc \in {"done", "skipped"}
    /\ mainpc' = "exit_ok"
    /\ UNCHANGED <<config, wavscp, n_jobs, reader, sourceReadable, outdir, jobs, files>>

\* Parallel re-raises the exception of a job in main(): the workers are
\* stopped, the jobs not yet started never start, the process exits non-zero
MainAbort ==
    /\ mainpc = "dispatch"
    /\ \E j \in 1..Len(jobs) : jobs[j].pc = "failed"
    /\ mainpc' = "exit_err"
    /\ UNCHANGED <<config, wavscp, n_jobs, reader, sourceReadable, outdir, jobs, files>>

---------------------------------------------------------------------------
(* _process_single_file(name, data), job i being the one of reader[i] *)

JobUnchanged == UNCHANGED <<config, wavscp, n_jobs, reader, sourceReadable, outdir, mainpc>>

Fail(i, e) == [jobs EXCEPT ![i].pc = "failed", ![i].err = e]

\* lines 108-110 and 113: x as the job holds it after parsing; the samples
\* of an archive entry are divided by 1 << (16 - 1)
ParsedWave(e, scp) ==
    IF scp THEN [s |-> e.wave.s, den |-> e.wave.den * FullScale] ELSE e.wave

\* lines 105-113: the id, the rate and the waveform of the entry
Parse(i) ==
    /\ mainpc = "dispatch"
    /\ jobs[i].pc = "parse"
    /\ jobs' = [jobs EXCEPT
                  ![i].pc = "check",
                  ![i].utt_id = UttId(reader[i].name, wavscp),
                  ![i].fs = reader[i].fs,
                  ![i].ndim = reader[i].ndim,
                  ![i].x = ParsedWave(reader[i], wavscp)]
    /\ files' = files
    /\ JobUnchanged

\* CheckError without the assertion on the sampling rate
CheckErrorNoRate(j, cfg) ==
    IF j.ndim # 1 THEN "multi_channel"
    ELSE IF Len(j.x.s) = 0 THEN "empty"
    ELSE IF PeakAbove1(j.x) THEN "pcm_range"
    ELSE "none"

\* lines 115-121: the three assertions, in order; the last one takes the
\* maximum of the samples, which raises for a waveform without samples
CheckError(j, cfg) ==
    IF j.ndim # 1 THEN "multi_channel"
    ELSE IF j.fs # cfg.sampling_rate THEN "sampling_rate"
    ELSE IF Len(j.x.s) = 0 THEN "empty"
    ELSE IF PeakAbove1(j.x) THEN "pcm_range"
    ELSE "none"

Check(i) ==
    /\ mainpc = "dispatch"
    /\ jobs[i].pc = "check"
    /\ LET e == CheckError(jobs[i], config)
       IN jobs' = IF e = "none" THEN [jobs EXCEPT ![i].pc = "extract"] ELSE Fail(i, e)
    /\ files' = files
    /\ JobUnchanged

\* lines 123-131: eps is not among the arguments, the default is used
Extract(i) ==
    /\ mainpc = "dispatch"
    /\ jobs[i].pc = "extract"
    /\ jobs' = [jobs EXCEPT
                  ![i].pc = "align",
                  ![i].feats = logmelfilterbank(jobs[i].x, config.fft_size,
                                                config.hop_size, DefaultEpsExp)]
    /\ files' = files
    /\ JobUnchanged

\* lines 133-136: pad, truncate, and assert the length
Align(i) ==
    /\ mainpc = "dispatch"
    /\ jobs[i].pc = "align"
    /\ LET a == AlignWave(jobs[i].x.s, Len(jobs[i].feats), config.fft_size, config.hop_size)
       IN jobs' = IF Len(jobs[i].feats) * config.hop_size = Len(a)
                  THEN [jobs EXCEPT ![i].pc = "gain", ![i].x.s = a]
                  ELSE [jobs EXCEPT ![i].pc = "failed", ![i].err = "length", ![i].x.s = a]
    /\ files' = files
    /\ JobUnchanged

\* Gain without the return on clipping: the clipped waveform goes on to be saved
GainNoReturn(i) ==
    /\ mainpc = "dispatch"
    /\ jobs[i].pc = "gain"
    /\ LET g == config.global_gain_scale
       IN jobs' = IF GainEnabled(g)
                  THEN [jobs EXCEPT ![i].pc = "save_wave", ![i].x = ApplyGain(jobs[i].x, g)]
                  ELSE [jobs EXCEPT ![i].pc = "save_wave"]
    /\ files' = files
    /\ UNCHANGED <<config, wavscp, n_jobs, reader, sourceReadable, outdir, mainpc>>

\* lines 138-144: the gain, and the return without saving when it clips
Gain(i) ==
    /\ mainpc = "dispatch"
    /\ jobs[i].pc = "gain"
    /\ LET g == config.global_gain_scale
           scaled == ApplyGain(jobs[i].x, g)
       IN jobs' = IF GainEnabled(g)
                  THEN IF PeakAbove1(scaled)
                       THEN [jobs EXCEPT ![i].pc = "skipped", ![i].x = scaled]
                       ELSE [jobs EXCEPT ![i].pc = "save_wave", ![i].x = scaled]
                  ELSE [jobs EXCEPT ![i].pc = "save_wave"]
    /\ files' = files
    /\ JobUnchanged

\* np.save can create the file
CanSave(dir) == dir.exists /\ dir.writable

\* SaveWave that goes on to the features without writing the waveform
SaveWaveSkipped(i) ==
    /\ mainpc = "dispatch"
    /\ jobs[i].pc = "save_wave"
    /\ files' = files
    /\ jobs' = [jobs EXCEPT ![i].pc = "save_feats"]
    /\ UNCHANGED <<config, wavscp, n_jobs, reader, sourceReadable, outdir, mainpc>>

\* lines 147-148
SaveWave(i) ==
    /\ mainpc = "dispatch"
    /\ jobs[i].pc = "save_wave"
    /\ IF CanSave(outdir)
       THEN /\ files' = files \cup {WavePath(jobs[i].utt_id)}
            /\ jobs' = [jobs EXCEPT ![i].pc = "save_feats",
                                    ![i].wrote = @ \cup {WavePath(jobs[i].utt_id)}]
       ELSE /\ files' = files
            /\ jobs' = Fail(i, "io")
    /\ JobUnchanged

\* lines 149-150
SaveFeats(i) ==
    /\ mainpc = "dispatch"
    /\ jobs[i].pc = "save_feats"
    /\ IF CanSave(outdir)
       THEN /\ files' = files \cup {FeatsPath(jobs[i].utt_id)}
            /\ jobs' = [jobs EXCEPT ![i].pc = "done",
                                    ![i].wrote = @ \cup {FeatsPath(jobs[i].utt_id)}]
       ELSE /\ files' = files
            /\ jobs' = Fail(i, "io")
    /\ JobUnchanged

---------------------------------------------------------------------------

Next ==
    \/ MainGetReader
    \/ MainCheckOutdir
    \/ MainFinish
    \/ MainAbort
    \/ \E i \in 1..Len(jobs) : JobStart(i)
    \/ \E i \in 1..Len(jobs) : Parse(i)
    \/ \E i \in 1..Len(jobs) : Check(i)
    \/ \E i \in 1..Len(jobs) : Extract(i)
    \/ \E i \in 1..Len(jobs) : Align(i)
    \/ \E i \in 1..Len(jobs) : Gain(i)
    \/ \E i \in 1..Len(jobs) : SaveWave(i)
    \/ \E i \in 1..Len(jobs) : SaveFeats(i)

\* the batch run
Spec == Init /\ [][Next]_vars

\* the run of one utterance
SpecJob == InitJob /\ [][Next]_vars

---------------------------------------------------------------------------
(* Vocabulary of the properties *)

Jobs == 1..Len(jobs)

\* the waveform of utterance i as the job receives it
InputWave(i) == ParsedWave(reader[i], wavscp)

\* some sample of w lies outside [-1.0, 1.0]
PeakExceeds1(w) == \E k \in 1..Len(w.s) : Abs(w.s[k]) > w.den

\* the peak of w times the gain g exceeds 1.0
ScaledPeakExceeds1(w, g) == \E k \in 1..Len(w.s) : Abs(w.s[k]) * g.n > w.den * g.d

\* utterance i violates one of the three conditions of the validator
Violates(i) ==
    \/ reader[i].ndim # 1
    \/ reader[i].fs # config.sampling_rate
    \/ PeakExceeds1(InputWave(i))

ValidationErrors == {"multi_channel", "sampling_rate", "pcm_range", "empty"}

\* job i was aborted at the validation step
AbortedAtValidation(i) == jobs[i].pc = "failed" /\ jobs[i].err \in ValidationErrors

\* job i is past the validation step
PastCheck(i) == jobs[i].pc \notin {"queued", "parse", "check"}

\* job i has executed the gain step
PastGain(i) ==
    \/ jobs[i].pc \in {"save_wave", "save_feats", "done", "skipped"}
    \/ jobs[i].pc = "failed" /\ jobs[i].err = "io"

\* job i has executed the alignment step
PastAlign(i) == PastGain(i) \/ jobs[i].pc = "gain" \/ jobs[i].err = "length"

Outputs(i) == {WavePath(jobs[i].utt_id), FeatsPath(jobs[i].utt_id)}

Exited == mainpc \in {"exit_ok", "exit_err"}

---------------------------------------------------------------------------
(* C1 *)

\* C1: for every waveform that passes validation and every positive fft_size
\* and hop_size, the assertion after padding and truncation never fails: the
\* aligned waveform has exactly len(feats) * hop_size samples.
C1_AlignmentInvariant ==
    \A i \in Jobs :
        PastAlign(i) =>
            /\ jobs[i].err # "length"
            /\ Len(jobs[i].x.s) = Len(jobs[i].feats) * config.hop_size

---------------------------------------------------------------------------
(* C2 *)

\* utterance i is valid and its scaled waveform does not clip
ValidNoClip(i) ==
    /\ ~Violates(i)
    /\ Len(InputWave(i).s) > 0
    /\ ~(GainEnabled(config.global_gain_scale)
         /\ ScaledPeakExceeds1(InputWave(i), config.global_gain_scale))

\* C2: a job that fails validation does not cancel its siblings or the run:
\* when the run has ended and only validation failures occurred, every valid
\* utterance that does not clip has both its wave and feats outputs.
C2_FailureIsolation ==
    (/\ Exited
     /\ sourceReadable
     /\ CanSave(outdir)
     /\ \A j \in Jobs : jobs[j].pc = "failed" => jobs[j].err \in ValidationErrors)
    => \A i \in Jobs :
          ValidNoClip(i) =>
              {WavePath(UttId(reader[i].name, wavscp)),
               FeatsPath(UttId(reader[i].name, wavscp))} \subseteq files

---------------------------------------------------------------------------
(* C3 *)

\* job i has scaled its aligned waveform and the result clips
ClipCase(i) ==
    /\ PastGain(i)
    /\ GainEnabled(config.global_gain_scale)
    /\ PeakExceeds1(jobs[i].x)

\* C3: when the gain is enabled and the scaled aligned waveform has a peak
\* above 1.0, the job writes neither file and ends without an error, and the
\* batch goes on: the skip is no failure of the run, and while no job has
\* failed the run can still take a step until it exits.
C3_ClipSkip ==
    /\ \A i \in Jobs :
          ClipCase(i) =>
              /\ jobs[i].pc = "skipped"
              /\ jobs[i].err = "none"
              /\ jobs[i].wrote = {}
    /\ (mainpc = "exit_err" /\ sourceReadable /\ outdir.exists)
          => \E j \in Jobs : jobs[j].pc = "failed"
    /\ (/\ mainpc = "dispatch"
        /\ \E i \in Jobs : jobs[i].pc = "skipped"
        /\ \A j \in Jobs : jobs[j].pc # "failed")
          => ENABLED Next

\* a job was skipped for clipping and a later utterance has been processed
C3_Witness ==
    \E i, j \in Jobs :
        /\ i < j
        /\ ClipCase(i)
        /\ jobs[i].pc = "skipped"
        /\ jobs[j].pc = "done"

---------------------------------------------------------------------------
(* C4 *)

\* C4: for every validated waveform with peak p and every gain g >= 0, the job
\* takes the clipping path if and only if p * g > 1.0; g = 0 leaves the
\* waveform unscaled, and padding and truncation do not change the peak.
C4_GainClipDetection ==
    \A i \in Jobs :
        /\ (Terminal(jobs[i]) /\ ~AbortedAtValidation(i) /\ jobs[i].err # "io")
              => (jobs[i].pc = "skipped"
                    <=> ScaledPeakExceeds1(InputWave(i), config.global_gain_scale))
        /\ jobs[i].pc = "gain" => AbsMax(jobs[i].x.s) = AbsMax(InputWave(i).s)
        /\ (PastGain(i) /\ ~GainEnabled(config.global_gain_scale))
              => jobs[i].x.den = InputWave(i).den

---------------------------------------------------------------------------
(* C5 *)

\* C5: an utterance that is not one-dimensional, or has another sampling rate,
\* or has a peak above 1.0, is aborted at validation, before the features are
\* extracted, and never writes a file; an utterance violating none of the
\* three passes validation.
C5_ValidatorRejects_Original ==
    \A i \in Jobs :
        PastCheck(i) =>
            /\ Violates(i) =>
                  AbortedAtValidation(i) /\ jobs[i].feats = <<>> /\ jobs[i].wrote = {}
            /\ ~Violates(i) => ~AbortedAtValidation(i)

\* C5 as amended: the same, and an utterance violating none of the three passes
\* validation when it has at least one sample; one without samples is aborted
\* at validation too.
C5_ValidatorRejects ==
    \A i \in Jobs :
        PastCheck(i) =>
            /\ (Violates(i) \/ Len(InputWave(i).s) = 0) =>
                  AbortedAtValidation(i) /\ jobs[i].feats = <<>> /\ jobs[i].wrote = {}
            /\ (~Violates(i) /\ Len(InputWave(i).s) > 0) => ~AbortedAtValidation(i)

\* an utterance with a peak above 1.0 was rejected and the run has ended
C5_Witness ==
    \E i \in Jobs :
        /\ reader[i].ndim = 1
        /\ reader[i].fs = config.sampling_rate
        /\ PeakExceeds1(InputWave(i))
        /\ AbortedAtValidation(i)
        /\ mainpc = "exit_err"

---------------------------------------------------------------------------
(* C6 *)

\* C6: no two jobs ever write the same output file.
C6_DistinctOutputs ==
    \A i, j \in Jobs : i # j => jobs[i].wrote \cap jobs[j].wrote = {}

---------------------------------------------------------------------------
(* C7 *)

\* C7: a run whose source is readable and whose output directory is writable
\* exits with success, also when utterances were skipped or failed validation;
\* it exits with an error only on a structural failure.
C7_ExitStatus ==
    mainpc = "exit_err" => ~sourceReadable \/ ~CanSave(outdir)

---------------------------------------------------------------------------
(* C8 *)

\* C8: an output directory that cannot be written is detected before dispatch:
\* no job ever starts while the directory is unwritable, also when it exists.
C8_OutdirPrecondition ==
    ~CanSave(outdir) => \A i \in Jobs : jobs[i].pc = "queued"

---------------------------------------------------------------------------
(* C9 *)

\* the input of job i is silent
Silent(i) == \A k \in 1..Len(InputWave(i).s) : InputWave(i).s[k] = 0

\* job i has extracted its features
Extracted(i) == PastAlign(i) \/ jobs[i].pc = "align"

\* C9: the floor of the log is the eps of the loaded config: every feature
\* entry is at least log10(config eps), and a silent waveform yields features
\* that all equal log10(config eps).
C9_ConfiguredLogFloor ==
    \A i \in Jobs :
        Extracted(i) =>
            \A t \in 1..Len(jobs[i].feats) :
                /\ jobs[i].feats[t] >= config.eps
                /\ Silent(i) => jobs[i].feats[t] = config.eps

---------------------------------------------------------------------------
(* C10 *)

\* C10: the steps of a job occur in the order validate, extract, align, gain,
\* save wave, save feats: the feats file is written only after the wave file,
\* a file is written only by a job that passed the three validation checks,
\* the length assertion and the clip check, and a job that has ended has
\* written both files or none.
C10_OutputPairing ==
    \A i \in Jobs :
        /\ FeatsPath(jobs[i].utt_id) \in jobs[i].wrote
              => WavePath(jobs[i].utt_id) \in jobs[i].wrote
        /\ jobs[i].wrote \subseteq Outputs(i) /\ jobs[i].wrote \subseteq files
        /\ jobs[i].wrote # {} =>
              /\ ~Violates(i)
              /\ Len(jobs[i].feats) > 0
              /\ Len(jobs[i].x.s) = Len(jobs[i].feats) * config.hop_size
              /\ ~(GainEnabled(config.global_gain_scale) /\ PeakExceeds1(jobs[i].x))
        /\ jobs[i].feats # <<>> => PastCheck(i) /\ ~AbortedAtValidation(i)
        /\ Terminal(jobs[i]) => jobs[i].wrote = {} \/ jobs[i].wrote = Outputs(i)
        /\ jobs[i].pc = "done" => jobs[i].wrote = Outputs(i)

\* a job has ended with both of its files written
C10_Witness ==
    \E i \in Jobs : jobs[i].pc = "done" /\ jobs[i].wrote = Outputs(i) /\ mainpc = "exit_ok"

====
